---------------------------- MODULE Spec2Model ----------------------------
(***************************************************************************)
(* A model of app.py, the Streamlit career toolkit.                        *)
(*                                                                         *)
(* Text is modelled as a sequence of atoms: the empty string is << >>, a   *)
(* joined string is the pieces with the separator between them.  A model   *)
(* response is a sequence of tokens: "{", "}", "txt" (a run of text with   *)
(* no brace in it) and one token per JSON member ("name", "experience",    *)
(* "education", "skills"), each standing for the member  "key": value      *)
(* with the separators it needs.                                           *)
(***************************************************************************)
EXTENDS Integers, Sequences, FiniteSets, TLC

VARIABLES
    pc,             \* position of the session's script run in main()
    language,       \* st.session_state.language
    export_format,  \* main's local export_format
    pressed,        \* the widget whose click triggered this script run
    linkedin_url,   \* the URL handed to linkedin_import
    response,       \* what chain.invoke returned to linkedin_import (or NoCall)
    imported_data,  \* the mapping linkedin_import returned
    resume_data,    \* st.session_state.resume_data
    interview_prep, \* st.session_state.interview_prep
    docs,           \* the five generated documents kept in st.session_state
    sent,           \* the prompts this script run sent to the generation endpoint
    msgs,           \* what this script run reported with st.error / st.success
    raised,         \* an exception left main(): Streamlit aborted the script run
    runs,           \* how many script runs the session has started
    config,         \* the module-level pdfkit configuration (None when no binary)
    files,          \* the temporary directory: the bytes at each path that exists
    xpc,            \* per session: position inside create_download_link
    xarg,           \* per session: the arguments of the running call
    xret,           \* per session: what the call returned (NoLink before that)
    xerr,           \* per session: what the call reported with st.error
    xfault,         \* per session: whether the environment failed an I/O step of the call
    faults          \* how many I/O steps the environment has failed so far

vars == << pc, language, export_format, pressed, linkedin_url, response,
           imported_data, resume_data, interview_prep, docs, sent, msgs, raised,
           runs, config, files, xpc, xarg, xret, xerr, xfault, faults >>

mainVars == << pc, language, export_format, pressed, linkedin_url, response,
               imported_data, resume_data, interview_prep, docs, sent, msgs, raised,
               runs >>

exportVars == << files, xpc, xarg, xret, xerr, xfault, faults >>

-----------------------------------------------------------------------------
(* Bounds *)

\* The longest model response, in tokens, after its opening.
MaxLen == 5

\* How many script runs (user actions) a session makes.
MaxRuns == 1

\* How many I/O steps of create_download_link the environment fails in all.
MaxFaults == 1

-----------------------------------------------------------------------------
(* Configuration, lines 32-33 *)

LANGUAGES == << "English", "Spanish", "French", "German", "Chinese" >>

Range(s) == { s[i] : i \in 1..Len(s) }

-----------------------------------------------------------------------------
(* linkedin_import, lines 54-96 *)

LINKEDIN_PREFIX == << "https:", "www.linkedin.com", "in" >>

required_fields == << "name", "experience", "education", "skills" >>

Tokens == { "{", "}", "txt" } \cup Range(required_fields)

EmptyMap == [ k \in {} |-> << >> ]

NoCall == << "no call" >>

GenerationFailure == << "generation failed" >>

\* url.startswith(prefix), on URLs split at "/"
StartsWith(url, prefix) ==
    /\ Len(url) >= Len(prefix)
    /\ SubSeq(url, 1, Len(prefix)) = prefix

\* A match that must cover the whole response (re.fullmatch for re.search).
RegexSearchWhole(text) ==
    IF Len(text) >= 2 /\ text[1] = "{" /\ text[Len(text)] = "}" THEN text ELSE << >>

\* re.search(r'\{.*\}', response, re.DOTALL): the leftmost "{" that has a "}"
\* after it, up to the last "}" of the text (the match is greedy); << >> is None.
RegexSearch(text) ==
    LET opens  == { i \in 1..Len(text) : text[i] = "{" }
        closes == { j \in 1..Len(text) : text[j] = "}" }
    IN  IF opens = {} \/ closes = {} THEN << >>
        ELSE LET first == CHOOSE i \in opens : \A k \in opens : i <= k
                 last  == CHOOSE j \in closes : \A k \in closes : k <= j
             IN  IF first < last THEN SubSeq(text, first, last) ELSE << >>

\* The value the model gives to each JSON member.
MemberValue(key) ==
    CASE key = "name"       -> << "Ann" >>
      [] key = "experience" -> << << "Dev at A" >>, << "Lead at B" >> >>
      [] key = "education"  -> << << "BSc at U" >> >>
      [] key = "skills"     -> << << "tla" >>, << "py" >> >>

\* json.loads accepts the text when it is one object: "{", members, "}".
JsonValid(text) ==
    /\ Len(text) >= 2
    /\ text[1] = "{"
    /\ text[Len(text)] = "}"
    /\ \A i \in 2..(Len(text) - 1) : text[i] \in Range(required_fields)

\* json.loads of a valid text: the mapping of its members.
JsonLoads(text) ==
    [ k \in { text[i] : i \in 2..(Len(text) - 1) } |-> MemberValue(k) ]

\* The prompt linkedin_import sends (lines 62-78).
ImportPrompt(url) ==
    [ template |-> "linkedin_import", suffix |-> << >>, context |-> url ]

ImportResult(ret, err, requests) ==
    [ ret |-> ret, err |-> err, requests |-> requests ]

\* A prefix test that forgets the "in/" part of the prefix.
ValidUrlAnyPath(url) == StartsWith(url, SubSeq(LINKEDIN_PREFIX, 1, 2))

\* line 58
ValidUrl(url) == StartsWith(url, LINKEDIN_PREFIX)

\* line 89 without the test: whatever parsed is accepted.
HasRequiredFieldsUnchecked(parsed_data) == TRUE

\* line 89
HasRequiredFields(parsed_data) ==
    \A i \in 1..Len(required_fields) : required_fields[i] \in DOMAIN parsed_data

\* linkedin_import(url); outcome is what chain.invoke does when it is reached:
\* it returns a response or raises.  ret is the returned mapping, err the
\* message given to st.error ("" when none), requests the prompts sent.
LinkedinImport(url, outcome) ==
    IF ~ValidUrl(url)
    THEN ImportResult(EmptyMap, "LinkedIn import error", << >>)
    ELSE IF outcome = GenerationFailure
    THEN ImportResult(EmptyMap, "LinkedIn import error", << ImportPrompt(url) >>)
    ELSE LET json_str == RegexSearch(outcome)
         IN  IF json_str = << >>
             THEN ImportResult(EmptyMap, "LinkedIn import error", << ImportPrompt(url) >>)
             ELSE IF ~JsonValid(json_str)
             THEN ImportResult(EmptyMap, "LinkedIn import error", << ImportPrompt(url) >>)
             ELSE IF ~HasRequiredFields(JsonLoads(json_str))
             THEN ImportResult(EmptyMap, "LinkedIn import error", << ImportPrompt(url) >>)
             ELSE ImportResult(JsonLoads(json_str), "", << ImportPrompt(url) >>)


-----------------------------------------------------------------------------
(* The inputs of linkedin_import *)

Urls ==
    { << >>,
      LINKEDIN_PREFIX \o << "ann" >>,
      << "http:", "www.linkedin.com", "in", "ann" >>,
      << "https:", "www.linkedin.com", "company", "x" >> }

\* How a response opens: with nothing, with a line of text, with a brace, or
\* with a line of text and then a brace; any tokens follow.
Preambles == { << >>, << "txt" >>, << "{" >>, << "txt", "{" >> }

\* The endpoint answers only when it is asked.
OutcomesFor(url, responses) ==
    IF LinkedinImport(url, GenerationFailure).requests = << >>
    THEN { NoCall }
    ELSE responses \cup { GenerationFailure }

-----------------------------------------------------------------------------
(* Initial values *)

NoLink == << "no link" >>

Sessions == { 1, 2 }

InitMain ==
    /\ pc = "idle"
    /\ language = LANGUAGES[1]
    /\ export_format = "PDF"
    /\ pressed = "none"
    /\ linkedin_url = << >>
    /\ response = NoCall
    /\ imported_data = EmptyMap
    /\ resume_data = EmptyMap
    /\ interview_prep = EmptyMap
    /\ sent = << >>
    /\ msgs = {}
    /\ raised = FALSE
    /\ runs = 0

InitExport ==
    /\ config \in { "None", "configured" }
    /\ files = EmptyMap
    /\ xpc = [ s \in Sessions |-> "idle" ]
    /\ xarg = [ s \in Sessions |-> << >> ]
    /\ xret = [ s \in Sessions |-> NoLink ]
    /\ xerr = [ s \in Sessions |-> {} ]
    /\ xfault = [ s \in Sessions |-> FALSE ]
    /\ faults = 0

-----------------------------------------------------------------------------
(* linkedin_import called on its own, once, with any URL and any response of *)
(* up to MaxLen tokens after one of the openings                             *)

ImportInit ==
    /\ InitMain
    /\ docs = [ k \in { "cover_letter" } |-> << >> ]
    /\ InitExport
    /\ config = "None"

Returned(url, outcome) ==
    LET r == LinkedinImport(url, outcome)
    IN  /\ pc' = "returned"
        /\ linkedin_url' = url
        /\ response' = outcome
        /\ imported_data' = r.ret
        /\ msgs' = IF r.err = "" THEN {} ELSE { r.err }
        /\ sent' = r.requests
        /\ UNCHANGED << language, export_format, pressed, resume_data,
                        interview_prep, docs, raised, runs, config >>
        /\ UNCHANGED exportVars

\* the endpoint is asked and answers with a text
ImportAnswered ==
    /\ pc = "idle"
    /\ \E url \in Urls :
         /\ OutcomesFor(url, {}) # { NoCall }
         /\ \E pre \in Preambles, n \in 0..MaxLen :
              \E body \in [ 1..n -> Tokens ] : Returned(url, pre \o body)

\* the endpoint is asked and the call raises
ImportGenerationFails ==
    /\ pc = "idle"
    /\ \E url \in Urls :
         /\ OutcomesFor(url, {}) # { NoCall }
         /\ Returned(url, GenerationFailure)

\* the endpoint is not asked
ImportNotAsked ==
    /\ pc = "idle"
    /\ \E url \in Urls :
         /\ OutcomesFor(url, {}) = { NoCall }
         /\ Returned(url, NoCall)

ImportNext ==
    \/ ImportAnswered
    \/ ImportGenerationFails
    \/ ImportNotAsked

ImportSpec == ImportInit /\ [][ImportNext]_vars

-----------------------------------------------------------------------------
(* generate_localized_content, lines 98-104, and its three wrappers *)

\* The placeholders of each prompt template (lines 108-113, 118-122, 127-132,
\* 239-240, 260-262).
Placeholders(template) ==
    CASE template = "resume"    -> { "language", "template", "sections" }
      [] template = "cover"     -> { "language", "resume", "job_desc" }
      [] template = "interview" -> { "position", "company_type", "skills" }
      [] template = "salary"    -> { "industry", "experience", "location",
                                     "current_salary" }
      [] template = "reference" -> { "referee_name", "relationship", "duration",
                                     "achievements", "contact_info" }

GenerateTemplates == { "resume", "cover", "interview", "salary", "reference" }

\* line 101: {**context, "language": language}
FullContext(context, lang) ==
    [ k \in DOMAIN context \cup { "language" } |->
        IF k = "language" THEN << lang >> ELSE context[k] ]

\* A prompt with no language directive after the template.
LocalizedPromptBare(prompt_template, lang, context) ==
    [ template |-> prompt_template,
      suffix   |-> << >>,
      context  |-> FullContext(context, lang) ]

\* lines 101-102: the template, then "\nRespond in {language} language"
LocalizedPrompt(prompt_template, lang, context) ==
    [ template |-> prompt_template,
      suffix   |-> << "Respond in", lang, "language" >>,
      context  |-> FullContext(context, lang) ]

\* An invoke that asks again when the first request fails.
InvokeWithRetry(prompt, outcome) ==
    IF outcome = GenerationFailure THEN << prompt, prompt >> ELSE << prompt >>

\* line 104: chain.invoke sends the prompt once, whatever comes back.
Invoke(prompt, outcome) == << prompt >>

\* generate_localized_content: formatting the template raises when a placeholder
\* has no value; otherwise the prompt is sent and the outcome is returned or
\* raised.  raises says whether an exception leaves the function.
GenerateLocalizedContent(prompt_template, lang, context, outcome) ==
    LET prompt == LocalizedPrompt(prompt_template, lang, context)
    IN  IF ~(Placeholders(prompt_template) \subseteq DOMAIN prompt.context)
        THEN [ raises |-> TRUE, text |-> << >>, requests |-> << >> ]
        ELSE [ raises   |-> outcome = GenerationFailure,
               text     |-> IF outcome = GenerationFailure THEN << >> ELSE outcome,
               requests |-> Invoke(prompt, outcome) ]

\* salary_guide, interview_preparation, generate_reference_letter: each passes
\* context['language'] on (lines 114, 123, 133).
salary_guide(context, outcome) ==
    GenerateLocalizedContent("salary", context["language"][1], context, outcome)

interview_preparation(context, outcome) ==
    GenerateLocalizedContent("interview", context["language"][1], context, outcome)

generate_reference_letter(context, outcome) ==
    GenerateLocalizedContent("reference", context["language"][1], context, outcome)

-----------------------------------------------------------------------------
(* The inputs of a script run *)

ExportFormats == { "PDF", "DOCX", "TXT" }

Buttons == { "import", "resume", "cover", "prep", "salary", "letter" }

GenerateButtons == Buttons \ { "import" }

FormFields == { "name", "email", "phone", "education", "experience", "skills",
                "job_description" }

\* What the user has in the resume form: nothing, or every field filled.
FormInputs ==
    { [ k \in FormFields |-> << >> ],
      [ k \in FormFields |-> << "typed", k >> ] }

Texts == { << >>, << "typed" >> }

\* lines 282-284: what the user has in the two interview widgets
PrepInputs ==
    { [ company_type |-> << "Startup" >>, technical_skills |-> << >> ],
      [ company_type |-> << "Government" >>, technical_skills |-> << "typed" >> ] }

\* The button pressed (if any) and the URL box; the box matters to Import
\* Profile alone.
Clicks ==
    { << b, << >> >> : b \in GenerateButtons \cup { "none" } }
        \cup { << "import", u >> : u \in Urls }

\* The texts the endpoint returns to a generate action.
GenTexts == { << "draft one" >>, << "draft two" >> }

GenOutcomes == GenTexts \cup { GenerationFailure }

\* The responses the endpoint returns to Import Profile in a script run.
SampleResponses ==
    { << "{", "name", "experience", "education", "skills", "}" >>,
      << "txt", "{", "skills", "name", "education", "experience", "}", "txt" >>,
      << "{", "name", "experience", "education", "}" >>,
      << "{", "name", "}", "txt", "{", "skills", "}" >>,
      << "txt" >> }

\* str(x), line 244 and 265
Str(x) == << "str", x >>

\* dict.get(key, ""), lines 266, 289, 335
Get(d, key) == IF key \in DOMAIN d THEN d[key] ELSE << >>

\* sep.join(parts), lines 201-203
RECURSIVE Join(_, _)
Join(parts, sep) ==
    IF Len(parts) = 0 THEN << >>
    ELSE IF Len(parts) = 1 THEN parts[1]
    ELSE parts[1] \o << sep >> \o Join(Tail(parts), sep)

\* d.update(u) and d[k] = v
Update(d, u) ==
    [ k \in DOMAIN d \cup DOMAIN u |-> IF k \in DOMAIN u THEN u[k] ELSE d[k] ]

-----------------------------------------------------------------------------
(* create_download_link, lines 135-172, one step per file-system access *)

\* line 139: os.path.join(tempfile.gettempdir(), f"{filename}.{format_type}")
TempPath(arg) == << arg[3], arg[2] >>

\* The bytes each writer puts in the file (lines 145, 147-149, 151-152).
Encode(format_type, content) ==
    CASE format_type = "pdf"  -> << "pdf of", content >>
      [] format_type = "docx" -> << "docx paragraph", content >>
      [] OTHER                -> << "utf-8", content >>

Partial == << "partial", << >> >>

\* base64.b64encode(data).decode()
B64(data) == << "base64", data >>

\* line 160: the anchor with the payload and the download name
DownloadLink(data, arg) == << "a", B64(data), arg[3], arg[2] >>

EmptyLink == << >>

Exists(path) == path \in DOMAIN files

FilesWith(path, data) ==
    [ q \in DOMAIN files \cup { path } |-> IF q = path THEN data ELSE files[q] ]

FilesWithout(path) == [ q \in DOMAIN files \ { path } |-> files[q] ]

\* The call starts: the arguments are bound, nothing is on disk yet.
BeginCall(s, content, format_type, filename) ==
    /\ xpc[s] = "idle"
    /\ xpc' = [ xpc EXCEPT ![s] = "write" ]
    /\ xarg' = [ xarg EXCEPT ![s] = << content, format_type, filename >> ]
    /\ xret' = [ xret EXCEPT ![s] = NoLink ]
    /\ xerr' = [ xerr EXCEPT ![s] = {} ]
    /\ xfault' = [ xfault EXCEPT ![s] = FALSE ]
    /\ UNCHANGED << files, faults >>

\* An except clause after which the function returns at once: the cleanup
\* is reached on the successful path only.
FailedWithoutCleanup(s) ==
    /\ xerr' = [ xerr EXCEPT ![s] = @ \cup { "Error generating" } ]
    /\ xret' = [ xret EXCEPT ![s] = EmptyLink ]
    /\ xpc' = [ xpc EXCEPT ![s] = "done" ]

\* lines 163-166: the except clause reports and makes "" the return value;
\* the finally clause runs next.
Failed(s) ==
    /\ xerr' = [ xerr EXCEPT ![s] = @ \cup { "Error generating" } ]
    /\ xret' = [ xret EXCEPT ![s] = EmptyLink ]
    /\ xpc' = [ xpc EXCEPT ![s] = "exists" ]

\* lines 142-144: PDF asked for and no renderer configured
RendererMissing(s) ==
    /\ xpc[s] = "write"
    /\ xarg[s][2] = "pdf"
    /\ config = "None"
    /\ Failed(s)
    /\ UNCHANGED << files, xarg, xfault, faults >>

\* lines 145, 149, 151-152: the file is written whole
WriteFile(s) ==
    /\ xpc[s] = "write"
    /\ xarg[s][2] = "pdf" => config # "None"
    /\ files' = FilesWith(TempPath(xarg[s]), Encode(xarg[s][2], xarg[s][1]))
    /\ xpc' = [ xpc EXCEPT ![s] = "read" ]
    /\ UNCHANGED << xarg, xret, xerr, xfault, faults >>

\* The same lines when the renderer, the save or the write raises: before the
\* file is created, or with the file created and not written whole.
WriteFails(s) ==
    /\ xpc[s] = "write"
    /\ xarg[s][2] = "pdf" => config # "None"
    /\ faults < MaxFaults
    /\ faults' = faults + 1
    /\ \E created \in BOOLEAN :
         files' = IF created THEN FilesWith(TempPath(xarg[s]), Partial) ELSE files
    /\ Failed(s)
    /\ xfault' = [ xfault EXCEPT ![s] = TRUE ]
    /\ UNCHANGED xarg

\* lines 155-162: the file is read back and the link is built from its bytes;
\* open raises FileNotFoundError when the path is not there any more.
ReadFile(s) ==
    /\ xpc[s] = "read"
    /\ IF Exists(TempPath(xarg[s]))
       THEN /\ xret' = [ xret EXCEPT ![s] =
                           DownloadLink(files[TempPath(xarg[s])], xarg[s]) ]
            /\ xpc' = [ xpc EXCEPT ![s] = "exists" ]
            /\ UNCHANGED xerr
       ELSE Failed(s)
    /\ UNCHANGED << files, xarg, xfault, faults >>

\* lines 155-156 when the open or the read raises
ReadFails(s) ==
    /\ xpc[s] = "read"
    /\ Exists(TempPath(xarg[s]))
    /\ faults < MaxFaults
    /\ faults' = faults + 1
    /\ Failed(s)
    /\ xfault' = [ xfault EXCEPT ![s] = TRUE ]
    /\ UNCHANGED << files, xarg >>

\* line 169: os.path.exists(temp_path); the call returns when it is False
FinallyExists(s) ==
    /\ xpc[s] = "exists"
    /\ xpc' = [ xpc EXCEPT ![s] = IF Exists(TempPath(xarg[s])) THEN "remove" ELSE "done" ]
    /\ UNCHANGED << files, xarg, xret, xerr, xfault, faults >>

\* line 170: os.remove(temp_path), and the call returns
FinallyRemove(s) ==
    /\ xpc[s] = "remove"
    /\ Exists(TempPath(xarg[s]))
    /\ files' = FilesWithout(TempPath(xarg[s]))
    /\ xpc' = [ xpc EXCEPT ![s] = "done" ]
    /\ UNCHANGED << xarg, xret, xerr, xfault, faults >>

\* lines 170-172 when os.remove raises: the path is gone since line 169
\* (FileNotFoundError), or the system refuses the removal; the error is
\* reported and the call returns.
FinallyRemoveFails(s) ==
    /\ xpc[s] = "remove"
    /\ Exists(TempPath(xarg[s])) => faults < MaxFaults
    /\ faults' = IF Exists(TempPath(xarg[s])) THEN faults + 1 ELSE faults
    /\ xerr' = [ xerr EXCEPT ![s] = @ \cup { "Error cleaning up files" } ]
    /\ xfault' = [ xfault EXCEPT ![s] = IF Exists(TempPath(xarg[s])) THEN TRUE ELSE @ ]
    /\ xpc' = [ xpc EXCEPT ![s] = "done" ]
    /\ UNCHANGED << files, xarg, xret >>

ExportStep(s) ==
    \/ RendererMissing(s)
    \/ WriteFile(s)
    \/ WriteFails(s)
    \/ ReadFile(s)
    \/ ReadFails(s)
    \/ FinallyExists(s)
    \/ FinallyRemove(s)
    \/ FinallyRemoveFails(s)

-----------------------------------------------------------------------------
(* main, lines 174-345: one script run of the session, top to bottom *)

Lower(fmt) ==
    CASE fmt = "PDF" -> "pdf" [] fmt = "DOCX" -> "docx" [] OTHER -> "txt"

\* The script run is over (its last line ran, or an exception left main): the
\* page waits for the user, the run's locals are gone, the session state stays.
RunEnd ==
    /\ pc = "end"
    /\ pc' = "idle"
    /\ export_format' = "PDF"
    /\ pressed' = "none"
    /\ linkedin_url' = << >>
    /\ response' = NoCall
    /\ imported_data' = EmptyMap
    /\ sent' = << >>
    /\ msgs' = {}
    /\ raised' = FALSE
    /\ xarg' = [ xarg EXCEPT ![1] = << >> ]
    /\ xret' = [ xret EXCEPT ![1] = NoLink ]
    /\ xerr' = [ xerr EXCEPT ![1] = {} ]
    /\ xfault' = [ xfault EXCEPT ![1] = FALSE ]
    /\ UNCHANGED << language, resume_data, interview_prep, docs, runs, config, files,
                    xpc, faults >>

\* lines 176-193: the user acts and the script reruns; the sidebar widgets give
\* their values
RunStart ==
    /\ pc = "idle"
    /\ runs < MaxRuns
    /\ runs' = runs + 1
    /\ pc' = "sidebar"
    /\ language' \in Range(LANGUAGES)
    /\ export_format' \in ExportFormats
    /\ \E click \in Clicks :
         /\ pressed' = click[1]
         /\ linkedin_url' = click[2]
    /\ UNCHANGED << response, imported_data, sent, msgs, raised, resume_data,
                    interview_prep, docs, config >>
    /\ UNCHANGED exportVars

\* lines 199-204: the imported profile, flattened
Flattened(data) ==
    [ name       |-> Get(data, "name"),
      experience |-> Join(Get(data, "experience"), "\n"),
      education  |-> Join(Get(data, "education"), "\n"),
      skills     |-> Join(Get(data, "skills"), ", ") ]

\* lines 194-207: Import Profile pressed with a URL in the box
ImportProfile ==
    /\ pc = "sidebar"
    /\ pressed = "import"
    /\ linkedin_url # << >>
    /\ \E outcome \in OutcomesFor(linkedin_url, SampleResponses) :
         LET r == LinkedinImport(linkedin_url, outcome)
         IN  /\ response' = outcome
             /\ imported_data' = r.ret
             /\ sent' = sent \o r.requests
             /\ resume_data' = IF r.ret # EmptyMap
                               THEN Update(resume_data, Flattened(r.ret))
                               ELSE resume_data
             /\ msgs' = msgs \cup (IF r.err = "" THEN {} ELSE { r.err })
                             \cup { "Profile imported successfully!" }
    /\ pc' = "tab1"
    /\ UNCHANGED << language, export_format, pressed, linkedin_url, interview_prep,
                    docs, raised, runs, config >>
    /\ UNCHANGED exportVars

\* lines 194-195: the button is not pressed, or the URL box is empty
SidebarNoImport ==
    /\ pc = "sidebar"
    /\ pressed # "import" \/ linkedin_url = << >>
    /\ pc' = "tab1"
    /\ UNCHANGED << language, export_format, pressed, linkedin_url, response,
                    imported_data, resume_data, interview_prep, docs, sent, msgs,
                    raised, runs, config >>
    /\ UNCHANGED exportVars

\* What a generate action does with the result g of the generation call: the
\* document is stored under key and the script goes on to next, or the
\* exception leaves main and Streamlit aborts the script run.
Generated(g, outcome, key, next) ==
    /\ sent' = sent \o g.requests
    /\ response' = IF g.requests = << >> THEN response ELSE outcome
    /\ raised' = g.raises
    /\ docs' = IF g.raises THEN docs ELSE Update(docs, [ k \in { key } |-> g.text ])
    /\ pc' = IF g.raises THEN "end" ELSE next

\* lines 219-235 and 249: the resume form's widgets overwrite resume_data
Tab1Render ==
    /\ pc = "tab1"
    /\ pressed # "resume"
    /\ \E form \in FormInputs : resume_data' = Update(resume_data, form)
    /\ pc' = IF "resume_content" \in DOMAIN docs THEN "export1" ELSE "tab2"
    /\ UNCHANGED << language, export_format, pressed, linkedin_url, response,
                    imported_data, interview_prep, docs, sent, msgs, raised, runs, config >>
    /\ UNCHANGED exportVars

\* lines 219-247: the same, and Generate Resume
GenerateResume ==
    /\ pc = "tab1"
    /\ pressed = "resume"
    /\ \E form \in FormInputs, outcome \in GenOutcomes :
         LET data == Update(resume_data, form)
             g == GenerateLocalizedContent("resume", language,
                      [ template |-> << "Chronological" >>, sections |-> Str(data) ],
                      outcome)
         IN  /\ resume_data' = data
             /\ Generated(g, outcome, "resume_content", "export1")
    /\ UNCHANGED << language, export_format, pressed, linkedin_url, imported_data,
                    interview_prep, msgs, runs, config >>
    /\ UNCHANGED exportVars

\* lines 257-258 and 270
Tab2Render ==
    /\ pc = "tab2"
    /\ pressed # "cover"
    /\ pc' = IF docs["cover_letter"] # << >> THEN "export2" ELSE "tab3"
    /\ UNCHANGED << language, export_format, pressed, linkedin_url, response,
                    imported_data, resume_data, interview_prep, docs, sent, msgs,
                    raised, runs, config >>
    /\ UNCHANGED exportVars

\* lines 258-270: Generate Cover Letter
GenerateCoverLetter ==
    /\ pc = "tab2"
    /\ pressed = "cover"
    /\ \E outcome \in GenOutcomes :
         LET g == GenerateLocalizedContent("cover", language,
                      [ resume   |-> Str(resume_data),
                        job_desc |-> Get(resume_data, "job_description") ],
                      outcome)
         IN  Generated(g, outcome, "cover_letter", "export2")
    /\ UNCHANGED << language, export_format, pressed, linkedin_url, imported_data,
                    resume_data, interview_prep, msgs, runs, config >>
    /\ UNCHANGED exportVars

\* lines 278-296 without the button
Tab3Render ==
    /\ pc = "tab3"
    /\ pressed # "prep"
    /\ \E w \in PrepInputs : interview_prep' = Update(interview_prep, w)
    /\ pc' = "tab4"
    /\ UNCHANGED << language, export_format, pressed, linkedin_url, response,
                    imported_data, resume_data, docs, sent, msgs, raised, runs, config >>
    /\ UNCHANGED exportVars

\* lines 278-296: Generate Prep Guide
GeneratePrepGuide ==
    /\ pc = "tab3"
    /\ pressed = "prep"
    /\ \E w \in PrepInputs, outcome \in GenOutcomes :
         LET prep == Update(interview_prep, w)
             g == interview_preparation(
                      [ language     |-> << language >>,
                        position     |-> Get(resume_data, "job_description"),
                        company_type |-> prep["company_type"],
                        skills       |-> prep["technical_skills"] ],
                      outcome)
         IN  /\ interview_prep' = prep
             /\ Generated(g, outcome, "interview_guide", "tab4")
    /\ UNCHANGED << language, export_format, pressed, linkedin_url, imported_data,
                    resume_data, msgs, runs, config >>
    /\ UNCHANGED exportVars

\* lines 298-319 without the button
Tab4Render ==
    /\ pc = "tab4"
    /\ pressed # "salary"
    /\ pc' = "tab5"
    /\ UNCHANGED << language, export_format, pressed, linkedin_url, response,
                    imported_data, resume_data, interview_prep, docs, sent, msgs,
                    raised, runs, config >>
    /\ UNCHANGED exportVars

\* lines 298-319: Generate Guide
GenerateSalaryGuide ==
    /\ pc = "tab4"
    /\ pressed = "salary"
    /\ \E industry \in Texts, years \in { 0, 5 }, outcome \in GenOutcomes :
         LET g == salary_guide(
                      [ language       |-> << language >>,
                        industry       |-> industry,
                        experience     |-> years,
                        location       |-> industry,
                        current_salary |-> 10 * years ],
                      outcome)
         IN  Generated(g, outcome, "salary_guide", "tab5")
    /\ UNCHANGED << language, export_format, pressed, linkedin_url, imported_data,
                    resume_data, interview_prep, msgs, runs, config >>
    /\ UNCHANGED exportVars

\* lines 321-339 without the button; the script run ends after the last tab
Tab5Render ==
    /\ pc = "tab5"
    /\ pressed # "letter"
    /\ pc' = IF "reference_letter" \in DOMAIN docs THEN "export5" ELSE "end"
    /\ UNCHANGED << language, export_format, pressed, linkedin_url, response,
                    imported_data, resume_data, interview_prep, docs, sent, msgs,
                    raised, runs, config >>
    /\ UNCHANGED exportVars

\* lines 321-339: Generate Letter
GenerateReferenceLetter ==
    /\ pc = "tab5"
    /\ pressed = "letter"
    /\ \E ref \in Texts, outcome \in GenOutcomes :
         LET g == generate_reference_letter(
                      [ language     |-> << language >>,
                        referee_name |-> ref,
                        relationship |-> ref,
                        duration     |-> ref,
                        achievements |-> Get(resume_data, "experience"),
                        contact_info |-> ref ],
                      outcome)
         IN  Generated(g, outcome, "reference_letter", "export5")
    /\ UNCHANGED << language, export_format, pressed, linkedin_url, imported_data,
                    resume_data, interview_prep, msgs, runs, config >>
    /\ UNCHANGED exportVars

\* The document each create_download_link call of main exports, its filename
\* and where the script goes on (lines 251-255, 272-276, 341-345).
ExportKey(at) ==
    CASE at = "export1" -> "resume_content"
      [] at = "export2" -> "cover_letter"
      [] at = "export5" -> "reference_letter"

ExportName(at) ==
    CASE at = "export1" -> "resume"
      [] at = "export2" -> "cover_letter"
      [] at = "export5" -> "reference_letter"

AfterExport(at) ==
    CASE at = "export1" -> "tab2"
      [] at = "export2" -> "tab3"
      [] at = "export5" -> "end"

\* main calls create_download_link
MainExportCall ==
    /\ pc \in { "export1", "export2", "export5" }
    /\ BeginCall(1, docs[ExportKey(pc)], Lower(export_format), ExportName(pc))
    /\ UNCHANGED mainVars
    /\ UNCHANGED config

\* the call returns to main: what it reported is on the page
MainExportReturn ==
    /\ pc \in { "export1", "export2", "export5" }
    /\ xpc[1] = "done"
    /\ xpc' = [ xpc EXCEPT ![1] = "idle" ]
    /\ msgs' = msgs \cup xerr[1]
    /\ pc' = AfterExport(pc)
    /\ UNCHANGED << language, export_format, pressed, linkedin_url, response,
                    imported_data, resume_data, interview_prep, docs, sent, raised,
                    runs, config >>
    /\ UNCHANGED << files, xarg, xret, xerr, xfault, faults >>

MainExportStep ==
    /\ ExportStep(1)
    /\ UNCHANGED mainVars
    /\ UNCHANGED config

Init ==
    /\ InitMain
    /\ docs = [ k \in { "cover_letter" } |-> << >> ]
    /\ InitExport

Next ==
    \/ RunEnd
    \/ RunStart
    \/ ImportProfile
    \/ SidebarNoImport
    \/ Tab1Render
    \/ GenerateResume
    \/ Tab2Render
    \/ GenerateCoverLetter
    \/ Tab3Render
    \/ GeneratePrepGuide
    \/ Tab4Render
    \/ GenerateSalaryGuide
    \/ Tab5Render
    \/ GenerateReferenceLetter
    \/ MainExportCall
    \/ MainExportReturn
    \/ MainExportStep

Spec == Init /\ [][Next]_vars

-----------------------------------------------------------------------------
(* Two sessions of the one server process in create_download_link at once:    *)
(* each session's script run reaches a call (lines 251, 272) with its own     *)
(* document, the format it selected and the filename of the tab.              *)

ExportNames == { "resume", "cover_letter" }

SessionCall(s) ==
    /\ \E content \in GenTexts, fmt \in ExportFormats, filename \in ExportNames :
         BeginCall(s, content, Lower(fmt), filename)
    /\ UNCHANGED mainVars
    /\ UNCHANGED config

SessionStep(s) ==
    /\ ExportStep(s)
    /\ UNCHANGED mainVars
    /\ UNCHANGED config

\* the call has returned to the session's script
SessionReturn(s) ==
    /\ xpc[s] = "done"
    /\ xpc' = [ xpc EXCEPT ![s] = "idle" ]
    /\ xarg' = [ xarg EXCEPT ![s] = << >> ]
    /\ xret' = [ xret EXCEPT ![s] = NoLink ]
    /\ xerr' = [ xerr EXCEPT ![s] = {} ]
    /\ xfault' = [ xfault EXCEPT ![s] = FALSE ]
    /\ UNCHANGED << files, faults >>
    /\ UNCHANGED mainVars
    /\ UNCHANGED config

ExportNext ==
    \E s \in Sessions :
        \/ SessionCall(s)
        \/ SessionStep(s)
        \/ SessionReturn(s)

ExportSpec == Init /\ [][ExportNext]_vars

-----------------------------------------------------------------------------
(* Properties of linkedin_import, checked under ImportSpec *)

IsText(r) == r # NoCall /\ r # GenerationFailure

\* The brace-delimited part of a text runs from i to j, it is one JSON object,
\* and the object has all four required keys.
CompleteObjectAt(text, i, j) ==
    /\ i < j
    /\ text[i] = "{"
    /\ text[j] = "}"
    /\ \A k \in 1..(i - 1) : text[k] # "{"
    /\ \A k \in (j + 1)..Len(text) : text[k] # "}"
    /\ \A k \in (i + 1)..(j - 1) : text[k] \notin { "{", "}", "txt" }
    /\ \A f \in { "name", "experience", "education", "skills" } :
          \E k \in (i + 1)..(j - 1) : text[k] = f

HasCompleteObject(text) ==
    \E i, j \in 1..Len(text) : CompleteObjectAt(text, i, j)

\* One well-formed object with the four keys, and no brace in the text around it.
SingleCompleteObject(text) ==
    \E i, j \in 1..Len(text) :
        /\ CompleteObjectAt(text, i, j)
        /\ \A k \in (1..(i - 1)) \cup ((j + 1)..Len(text)) : text[k] \notin { "{", "}" }

\* C3: for a URL that does not start with "https://www.linkedin.com/in/",
\* linkedin_import reports an error, returns an empty mapping, lets no exception
\* out, and sends no request to the generation endpoint.
C3_InvalidUrlRejectedWithoutRequest ==
    (pc = "returned" /\ ~StartsWith(linkedin_url, << "https:", "www.linkedin.com", "in" >>))
        => /\ imported_data = EmptyMap
           /\ "LinkedIn import error" \in msgs
           /\ sent = << >>
           /\ response = NoCall
           /\ raised = FALSE

C3_Witness ==
    /\ pc = "returned"
    /\ linkedin_url = << "https:", "www.linkedin.com", "company", "x" >>
    /\ imported_data = EmptyMap
    /\ msgs # {}

\* C4: for a valid URL and a response holding a single well-formed JSON object
\* with the four keys name, experience, education and skills, possibly with
\* non-brace text around it, linkedin_import returns that object's fields and
\* values unmodified, and reports no error.
C4_CompleteObjectReturnedVerbatim ==
    (pc = "returned" /\ IsText(response) /\ SingleCompleteObject(response))
        => /\ DOMAIN imported_data = { "name", "experience", "education", "skills" }
           /\ \A k \in DOMAIN imported_data : imported_data[k] = MemberValue(k)
           /\ msgs = {}

C4_Witness ==
    /\ pc = "returned"
    /\ response = << "txt", "{", "skills", "name", "education", "experience", "}" >>
    /\ DOMAIN imported_data = { "name", "experience", "education", "skills" }

\* C5: for a valid URL and a response whose JSON lacks one of the four required
\* keys, or that holds no parseable brace-delimited JSON (several blocks
\* spanned by the greedy match included), linkedin_import returns an empty
\* mapping and reports the error instead of raising it.
C5_IncompleteOrUnparseableGivesEmpty ==
    (/\ pc = "returned"
     /\ StartsWith(linkedin_url, << "https:", "www.linkedin.com", "in" >>)
     /\ IsText(response)
     /\ ~HasCompleteObject(response))
        => /\ imported_data = EmptyMap
           /\ "LinkedIn import error" \in msgs
           /\ raised = FALSE

C5_Witness ==
    /\ pc = "returned"
    /\ response = << "txt", "{", "name", "experience", "education", "}" >>
    /\ imported_data = EmptyMap
    /\ "LinkedIn import error" \in msgs

-----------------------------------------------------------------------------
(* Properties of a script run, checked under Spec *)

\* C2: a failure of the generation call during a generate action is caught
\* where it occurs and turned into a message: no exception leaves the handler
\* and the stored documents stay as they were.
C2_GenerationFailureCaught ==
    [][ (pressed \in GenerateButtons /\ response # GenerationFailure
            /\ response' = GenerationFailure)
          => (raised' = FALSE /\ msgs' # msgs /\ docs' = docs) ]_vars

\* C6: every prompt a generate action sends has the directive of the language
\* selected in the session, one of the five supported, after the template.
C6_PromptHasSelectedLanguageDirective ==
    \A i \in 1..Len(sent) :
        sent[i].template \in { "resume", "cover", "interview", "salary", "reference" }
            => /\ sent[i].suffix = << "Respond in", language, "language" >>
               /\ language \in { "English", "Spanish", "French", "German", "Chinese" }

C6_Witness ==
    /\ language = "German"
    /\ Len(sent) = 1
    /\ sent[1].template = "reference"
    /\ sent[1].suffix = << "Respond in", "German", "language" >>

\* C7: a user action issues at most one request to the generation endpoint,
\* also after a failure or a malformed output, and a script run in which no
\* button was pressed issues none.
C7_AtMostOneRequestPerAction ==
    /\ Len(sent) <= 1
    /\ pressed = "none" => sent = << >>

C7_Witness ==
    /\ pc = "end"
    /\ pressed = "salary"
    /\ response = GenerationFailure
    /\ Len(sent) = 1

\* C8: after a successful Import Profile the resume fields name, experience,
\* education and skills hold the imported values, flattened, and still hold
\* them when that script run ends.
C8_ImportedFieldsKeptToEndOfRun ==
    (pc = "end" /\ pressed = "import" /\ imported_data # EmptyMap)
        => /\ resume_data["name"] = imported_data["name"]
           /\ resume_data["experience"] = Join(imported_data["experience"], "\n")
           /\ resume_data["education"] = Join(imported_data["education"], "\n")
           /\ resume_data["skills"] = Join(imported_data["skills"], ", ")

\* C10: Import Profile reports success only when linkedin_import returned a
\* non-empty mapping; a failed import reports no success.
C10_SuccessOnlyAfterImport ==
    "Profile imported successfully!" \in msgs => imported_data # EmptyMap

-----------------------------------------------------------------------------
(* Properties of create_download_link, checked under ExportSpec *)

\* C1 as stated: when a call of create_download_link returns, having succeeded
\* or failed at any step, its temporary file path does not exist.
C1_TempFileGoneAtReturn ==
    [][ \A s \in Sessions :
          (xpc[s] # "done" /\ xpc'[s] = "done")
             => << xarg[s][3], xarg[s][2] >> \notin DOMAIN files' ]_vars

\* C1, amended: when a call of create_download_link returns, having succeeded
\* or failed at any step, its temporary file path does not exist, unless the
\* removal itself raised and "Error cleaning up files" was reported.
C1_TempFileGoneOrCleanupErrorReported ==
    [][ \A s \in Sessions :
          (xpc[s] # "done" /\ xpc'[s] = "done")
             => \/ << xarg[s][3], xarg[s][2] >> \notin DOMAIN files'
                \/ "Error cleaning up files" \in xerr'[s] ]_vars

\* A call that failed while writing has returned "" and its path is gone.
C1_Witness ==
    \E s \in Sessions :
        /\ xpc[s] = "done"
        /\ xfault[s]
        /\ xret[s] = << >>
        /\ xerr[s] = { "Error generating" }
        /\ << xarg[s][3], xarg[s][2] >> \notin DOMAIN files

\* C9: two sessions exporting at once, also with the same filename and format,
\* do not disturb each other: while no I/O step fails, a call with a renderer
\* for its format returns the link whose payload encodes the content it was given, and
\* reports no error.
C9_ConcurrentExportsIndependent ==
    \A s \in Sessions :
        (/\ xpc[s] = "done"
         /\ faults = 0
         /\ ~(xarg[s][2] = "pdf" /\ config = "None"))
            => /\ xret[s] = << "a", << "base64", Encode(xarg[s][2], xarg[s][1]) >>,
                               xarg[s][3], xarg[s][2] >>
               /\ xerr[s] = {}

=============================================================================
